---- MODULE Spec2Model ----
(***************************************************************************)
(* RandomNumberRaffle (src/unnamed/part_001): a raffle contract.  Every    *)
(* participant address enters once and is assigned a number of             *)
(* 1..MAX_NUMBER that nobody else holds; the admin draws winners among the *)
(* participants that have not won yet, and resets the raffle.              *)
(*                                                                         *)
(* A transaction is one atomic step.  A failed require, an arithmetic      *)
(* panic or an out-of-bounds index reverts the transaction: storage keeps  *)
(* its value and only the call's outcome is observed by the caller.        *)
(* Arrays are 0-based in the contract and 1-based here: element i of a     *)
(* Solidity array is element i + 1 of the sequence.                        *)
(***************************************************************************)
EXTENDS Integers, Sequences, FiniteSets

(* The contract's MAX_NUMBER is 100; the model runs the same code over a   *)
(* pool of this size.                                                      *)
MAX_NUMBER == 2

(* Externally owned accounts that send transactions: 1..NumAddr.  There is *)
(* one more account than numbers, so that an account without a record      *)
(* exists when the pool is exhausted.                                      *)
NumAddr == 3

(* The keccak256 hashes of drawWinner and _generateUniqueRandomNumber are  *)
(* values the caller cannot choose: any value of 0..MaxSeed.               *)
MaxSeed == 2

(* block.timestamp is a value the caller cannot choose: any value of       *)
(* 1..MaxTimestamp.                                                        *)
MaxTimestamp == 2

ZeroAddress == 0

Senders == 1..NumAddr

Address == {ZeroAddress} \cup Senders

(* The accounts that may have deployed the contract. *)
Deployers == {1, NumAddr}

(* The contract stores _name and copies it; it never reads it. *)
Names == {"ada"}

Seeds == 0..MaxSeed

Timestamps == 1..MaxTimestamp

(* The uint256 arguments of getWinnerByIndex that are tried: every index   *)
(* the winners array can have and one it cannot.                           *)
Indexes == 0..MAX_NUMBER

(* numberAssigned is a mapping over every uint256; the contract reads and  *)
(* writes the keys 1..MAX_NUMBER, the model keeps one key on each side.    *)
NumberKeys == 0..(MAX_NUMBER + 1)

VARIABLES
    admin,                  \* address public admin
    participants,           \* mapping(address => Participant)
    assignedNumbers,        \* uint256[]
    participantAddresses,   \* address[]
    winnerAddresses,        \* address[]
    winners,                \* WinnerInfo[]
    numberAssigned,         \* mapping(uint256 => bool)
    deployer,               \* msg.sender of the constructor
    outcome,                \* what the last call did: [op, status]
    returned,               \* the values the last call returned, as a tuple
    emitted,                \* the events the last call emitted, in order
    drawLog                 \* history: what each successful drawWinner since
                            \* the last successful resetLottery returned

storage == <<admin, participants, assignedNumbers, participantAddresses,
             winnerAddresses, winners, numberAssigned>>

vars == <<admin, participants, assignedNumbers, participantAddresses,
          winnerAddresses, winners, numberAssigned, deployer, outcome,
          returned, emitted, drawLog>>

(* struct Participant; the value of a mapping key never written (or        *)
(* deleted) is the struct of zero values.                                  *)
Participant(name, number, exists) ==
    [name |-> name, number |-> number, exists |-> exists]

NoParticipant == Participant("", 0, FALSE)

(* struct WinnerInfo *)
WinnerInfo(winnerAddress, name, number) ==
    [winnerAddress |-> winnerAddress, name |-> name, number |-> number]

Outcome(op, status) == [op |-> op, status |-> status]

(* event ParticipantEntered(address indexed participant, string name,      *)
(* uint256 number)                                                         *)
ParticipantEntered(participant, name, number) ==
    [event |-> "ParticipantEntered", participant |-> participant,
     name |-> name, number |-> number]

(* event WinnerDrawn(address indexed winner, string name, uint256 number)  *)
WinnerDrawn(winner, name, number) ==
    [event |-> "WinnerDrawn", winner |-> winner, name |-> name, number |-> number]

(* event LotteryReset(uint256 timestamp) *)
LotteryReset(timestamp) == [event |-> "LotteryReset", timestamp |-> timestamp]

(* A call that reverts returns no value and its events are discarded; so   *)
(* does a function without return values or without emit.                  *)
Nothing == << >>

(* constructor: admin = msg.sender; every other storage slot is zero.      *)
Init ==
    /\ deployer \in Deployers
    /\ admin = deployer
    /\ participants = [a \in Address |-> NoParticipant]
    /\ assignedNumbers = << >>
    /\ participantAddresses = << >>
    /\ winnerAddresses = << >>
    /\ winners = << >>
    /\ numberAssigned = [n \in NumberKeys |-> FALSE]
    /\ outcome = Outcome("constructor", "ok")
    /\ returned = Nothing
    /\ emitted = Nothing
    /\ drawLog = << >>

(* onlyAdmin with the require left out. *)
onlyAdmin_anyone(sender) == TRUE

(* modifier onlyAdmin: require(msg.sender == admin) *)
onlyAdmin(sender) == sender = admin

(* The inner loop started at j = 1 instead of j = 0: the first winner is   *)
(* never compared.                                                         *)
isCurrentWinner_skipFirst(participantAddress, wa, j) ==
    \E k \in (j + 1)..Len(wa) : wa[k] = participantAddress

(* The inner loop of both passes of drawWinner: is participantAddress one  *)
(* of winnerAddresses[0 .. length-1]?                                      *)
RECURSIVE isCurrentWinner(_, _, _)
isCurrentWinner(participantAddress, wa, j) ==
    IF j > Len(wa) THEN FALSE
    ELSE IF wa[j] = participantAddress THEN TRUE
    ELSE isCurrentWinner(participantAddress, wa, j + 1)

(* The first pass without the exclusion of earlier winners: every          *)
(* participant from index i on is counted.                                 *)
countEligible_noExclusion(pa, wa, i, eligibleCount) ==
    IF i > Len(pa) THEN eligibleCount ELSE eligibleCount + (Len(pa) - i + 1)

(* First pass of drawWinner: eligibleCount after the loop has run from     *)
(* index i (1-based) to the end of participantAddresses.                   *)
RECURSIVE countEligible(_, _, _, _)
countEligible(pa, wa, i, eligibleCount) ==
    IF i > Len(pa) THEN eligibleCount
    ELSE countEligible(pa, wa, i + 1,
            IF isCurrentWinner(pa[i], wa, 1) THEN eligibleCount
            ELSE eligibleCount + 1)

(* The second pass with currentIndex incremented before the comparison.    *)
RECURSIVE selectWinner_offByOne(_, _, _, _, _)
selectWinner_offByOne(pa, wa, i, currentIndex, randomIndex) ==
    IF i > Len(pa) THEN ZeroAddress
    ELSE IF isCurrentWinner(pa[i], wa, 1)
         THEN selectWinner_offByOne(pa, wa, i + 1, currentIndex, randomIndex)
    ELSE IF currentIndex + 1 = randomIndex THEN pa[i]
    ELSE selectWinner_offByOne(pa, wa, i + 1, currentIndex + 1, randomIndex)

(* The second pass indexing the whole participant list: earlier winners    *)
(* are not skipped.                                                        *)
selectWinner_noSkip(pa, wa, i, currentIndex, randomIndex) ==
    IF i + randomIndex <= Len(pa) THEN pa[i + randomIndex] ELSE ZeroAddress

(* Second pass of drawWinner: winnerAddress after the loop; the local      *)
(* variable starts as address(0) and keeps it when the loop ends without   *)
(* reaching randomIndex.                                                   *)
RECURSIVE selectWinner(_, _, _, _, _)
selectWinner(pa, wa, i, currentIndex, randomIndex) ==
    IF i > Len(pa) THEN ZeroAddress
    ELSE IF isCurrentWinner(pa[i], wa, 1)
         THEN selectWinner(pa, wa, i + 1, currentIndex, randomIndex)
    ELSE IF currentIndex = randomIndex THEN pa[i]
    ELSE selectWinner(pa, wa, i + 1, currentIndex + 1, randomIndex)

(* The populate loop run from MAX_NUMBER down to i. *)
RECURSIVE populate_descending(_, _)
populate_descending(na, i) ==
    IF i > MAX_NUMBER THEN << >>
    ELSE IF ~na[i] THEN populate_descending(na, i + 1) \o <<i>>
    ELSE populate_descending(na, i + 1)

(* The populate loop of _generateUniqueRandomNumber: the numbers i..       *)
(* MAX_NUMBER with numberAssigned[i] false, in ascending order.            *)
RECURSIVE populate(_, _)
populate(na, i) ==
    IF i > MAX_NUMBER THEN << >>
    ELSE IF ~na[i] THEN <<i>> \o populate(na, i + 1)
    ELSE populate(na, i + 1)

(* The generator without the availableNumbers list: a number of           *)
(* 1..MAX_NUMBER whether or not it is assigned.                            *)
_generateUniqueRandomNumber_anyNumber(na, an, seed) ==
    [reverted |-> FALSE, value |-> (seed % MAX_NUMBER) + 1]

(* _generateUniqueRandomNumber.  availableNumbers has MAX_NUMBER -         *)
(* assignedNumbers.length zero-initialised slots (the subtraction is       *)
(* checked); writing past the end or taking the hash modulo 0 panics.      *)
(* The result is [reverted, value].                                        *)
_generateUniqueRandomNumber(na, an, seed) ==
    LET size == MAX_NUMBER - Len(an)
        found == populate(na, 1)
    IN  IF size < 0 \/ Len(found) > size \/ size = 0
        THEN [reverted |-> TRUE, value |-> 0]
        ELSE LET availableNumbers ==
                     [k \in 1..size |-> IF k <= Len(found) THEN found[k] ELSE 0]
                 randomIndex == seed % size
             IN  [reverted |-> FALSE, value |-> availableNumbers[randomIndex + 1]]

(* enterRaffle without its first require. *)
notEntered_unchecked(sender) == TRUE

(* enterRaffle's first require: !participants[msg.sender].exists *)
notEntered(sender) == ~participants[sender].exists

(* The second require with <= for <. *)
numbersAvailable_inclusive(an) == Len(an) <= MAX_NUMBER

(* enterRaffle's second require: assignedNumbers.length < MAX_NUMBER *)
numbersAvailable(an) == Len(an) < MAX_NUMBER

(* enterRaffle emitting assignedNumbers.length for randomNumber. *)
enterRaffle_emitsCount(sender, name, seed) ==
    /\ UNCHANGED <<admin, deployer, winnerAddresses, winners, drawLog>>
    /\ returned' = Nothing
    /\ IF ~notEntered(sender)
       THEN /\ outcome' = Outcome("enterRaffle", "You have already entered the raffle")
            /\ emitted' = Nothing
            /\ UNCHANGED <<participants, assignedNumbers, participantAddresses,
                           numberAssigned>>
       ELSE IF ~numbersAvailable(assignedNumbers)
       THEN /\ outcome' = Outcome("enterRaffle", "All numbers have been assigned")
            /\ emitted' = Nothing
            /\ UNCHANGED <<participants, assignedNumbers, participantAddresses,
                           numberAssigned>>
       ELSE LET r == _generateUniqueRandomNumber(numberAssigned, assignedNumbers, seed)
                randomNumber == r.value
            IN  IF r.reverted
                THEN /\ outcome' = Outcome("enterRaffle", "panic")
                     /\ emitted' = Nothing
                     /\ UNCHANGED <<participants, assignedNumbers,
                                    participantAddresses, numberAssigned>>
                ELSE /\ participants' = [participants EXCEPT
                            ![sender] = Participant(name, randomNumber, TRUE)]
                     /\ numberAssigned' = [numberAssigned EXCEPT ![randomNumber] = TRUE]
                     /\ assignedNumbers' = Append(assignedNumbers, randomNumber)
                     /\ participantAddresses' = Append(participantAddresses, sender)
                     /\ emitted' = <<ParticipantEntered(sender, name,
                                         Len(assignedNumbers) + 1)>>
                     /\ outcome' = Outcome("enterRaffle", "ok")

(* enterRaffle putting msg.sender at the front of participantAddresses. *)
enterRaffle_prepends(sender, name, seed) ==
    /\ UNCHANGED <<admin, deployer, winnerAddresses, winners, drawLog>>
    /\ returned' = Nothing
    /\ IF ~notEntered(sender)
       THEN /\ outcome' = Outcome("enterRaffle", "You have already entered the raffle")
            /\ emitted' = Nothing
            /\ UNCHANGED <<participants, assignedNumbers, participantAddresses,
                           numberAssigned>>
       ELSE IF ~numbersAvailable(assignedNumbers)
       THEN /\ outcome' = Outcome("enterRaffle", "All numbers have been assigned")
            /\ emitted' = Nothing
            /\ UNCHANGED <<participants, assignedNumbers, participantAddresses,
                           numberAssigned>>
       ELSE LET r == _generateUniqueRandomNumber(numberAssigned, assignedNumbers, seed)
                randomNumber == r.value
            IN  IF r.reverted
                THEN /\ outcome' = Outcome("enterRaffle", "panic")
                     /\ emitted' = Nothing
                     /\ UNCHANGED <<participants, assignedNumbers,
                                    participantAddresses, numberAssigned>>
                ELSE /\ participants' = [participants EXCEPT
                            ![sender] = Participant(name, randomNumber, TRUE)]
                     /\ numberAssigned' = [numberAssigned EXCEPT ![randomNumber] = TRUE]
                     /\ assignedNumbers' = Append(assignedNumbers, randomNumber)
                     /\ participantAddresses' = <<sender>> \o participantAddresses
                     /\ emitted' = <<ParticipantEntered(sender, name, randomNumber)>>
                     /\ outcome' = Outcome("enterRaffle", "ok")

(* enterRaffle with its two requires in the opposite order. *)
enterRaffle_poolCheckFirst(sender, name, seed) ==
    /\ UNCHANGED <<admin, deployer, winnerAddresses, winners, drawLog>>
    /\ returned' = Nothing
    /\ IF ~numbersAvailable(assignedNumbers)
       THEN /\ outcome' = Outcome("enterRaffle", "All numbers have been assigned")
            /\ emitted' = Nothing
            /\ UNCHANGED <<participants, assignedNumbers, participantAddresses,
                           numberAssigned>>
       ELSE IF ~notEntered(sender)
       THEN /\ outcome' = Outcome("enterRaffle", "You have already entered the raffle")
            /\ emitted' = Nothing
            /\ UNCHANGED <<participants, assignedNumbers, participantAddresses,
                           numberAssigned>>
       ELSE LET r == _generateUniqueRandomNumber(numberAssigned, assignedNumbers, seed)
                randomNumber == r.value
            IN  IF r.reverted
                THEN /\ outcome' = Outcome("enterRaffle", "panic")
                     /\ emitted' = Nothing
                     /\ UNCHANGED <<participants, assignedNumbers,
                                    participantAddresses, numberAssigned>>
                ELSE /\ participants' = [participants EXCEPT
                            ![sender] = Participant(name, randomNumber, TRUE)]
                     /\ numberAssigned' = [numberAssigned EXCEPT ![randomNumber] = TRUE]
                     /\ assignedNumbers' = Append(assignedNumbers, randomNumber)
                     /\ participantAddresses' = Append(participantAddresses, sender)
                     /\ emitted' = <<ParticipantEntered(sender, name, randomNumber)>>
                     /\ outcome' = Outcome("enterRaffle", "ok")

(* enterRaffle(_name) sent by sender; seed is the hash the number          *)
(* generator computes.                                                     *)
enterRaffle(sender, name, seed) ==
    /\ UNCHANGED <<admin, deployer, winnerAddresses, winners, drawLog>>
    /\ returned' = Nothing
    /\ IF ~notEntered(sender)
       THEN /\ outcome' = Outcome("enterRaffle", "You have already entered the raffle")
            /\ emitted' = Nothing
            /\ UNCHANGED <<participants, assignedNumbers, participantAddresses,
                           numberAssigned>>
       ELSE IF ~numbersAvailable(assignedNumbers)
       THEN /\ outcome' = Outcome("enterRaffle", "All numbers have been assigned")
            /\ emitted' = Nothing
            /\ UNCHANGED <<participants, assignedNumbers, participantAddresses,
                           numberAssigned>>
       ELSE LET r == _generateUniqueRandomNumber(numberAssigned, assignedNumbers, seed)
                randomNumber == r.value
            IN  IF r.reverted
                THEN /\ outcome' = Outcome("enterRaffle", "panic")
                     /\ emitted' = Nothing
                     /\ UNCHANGED <<participants, assignedNumbers,
                                    participantAddresses, numberAssigned>>
                ELSE /\ participants' = [participants EXCEPT
                            ![sender] = Participant(name, randomNumber, TRUE)]
                     /\ numberAssigned' = [numberAssigned EXCEPT ![randomNumber] = TRUE]
                     /\ assignedNumbers' = Append(assignedNumbers, randomNumber)
                     /\ participantAddresses' = Append(participantAddresses, sender)
                     /\ emitted' = <<ParticipantEntered(sender, name, randomNumber)>>
                     /\ outcome' = Outcome("enterRaffle", "ok")

(* drawWinner that also deletes the winner's participant record. *)
drawWinner_removesWinner(sender, seed) ==
    /\ UNCHANGED <<admin, deployer, assignedNumbers, participantAddresses,
                   numberAssigned>>
    /\ IF ~onlyAdmin(sender)
       THEN /\ outcome' = Outcome("drawWinner", "Only admin can call this function")
            /\ returned' = Nothing
            /\ emitted' = Nothing
            /\ UNCHANGED <<participants, winnerAddresses, winners, drawLog>>
       ELSE LET eligibleCount ==
                    countEligible(participantAddresses, winnerAddresses, 1, 0)
            IN  IF ~(eligibleCount > 0)
                THEN /\ outcome' = Outcome("drawWinner", "No eligible participants left")
                     /\ returned' = Nothing
                     /\ emitted' = Nothing
                     /\ UNCHANGED <<participants, winnerAddresses, winners, drawLog>>
                ELSE LET randomIndex == seed % eligibleCount
                         winnerAddress ==
                             selectWinner(participantAddresses, winnerAddresses,
                                          1, 0, randomIndex)
                         winner == participants[winnerAddress]
                         winnerInfo ==
                             WinnerInfo(winnerAddress, winner.name, winner.number)
                     IN  /\ winnerAddresses' = Append(winnerAddresses, winnerAddress)
                         /\ winners' = Append(winners, winnerInfo)
                         /\ participants' = [participants EXCEPT
                                ![winnerAddress] = NoParticipant]
                         /\ emitted' = <<WinnerDrawn(winnerAddress, winner.name,
                                                     winner.number)>>
                         /\ returned' = <<winnerInfo>>
                         /\ drawLog' = Append(drawLog, winnerInfo)
                         /\ outcome' = Outcome("drawWinner", "ok")

(* drawWinner reading the winner's name and number from                    *)
(* participants[msg.sender].                                               *)
drawWinner_senderRecord(sender, seed) ==
    /\ UNCHANGED <<admin, deployer, participants, assignedNumbers,
                   participantAddresses, numberAssigned>>
    /\ IF ~onlyAdmin(sender)
       THEN /\ outcome' = Outcome("drawWinner", "Only admin can call this function")
            /\ returned' = Nothing
            /\ emitted' = Nothing
            /\ UNCHANGED <<winnerAddresses, winners, drawLog>>
       ELSE LET eligibleCount ==
                    countEligible(participantAddresses, winnerAddresses, 1, 0)
            IN  IF ~(eligibleCount > 0)
                THEN /\ outcome' = Outcome("drawWinner", "No eligible participants left")
                     /\ returned' = Nothing
                     /\ emitted' = Nothing
                     /\ UNCHANGED <<winnerAddresses, winners, drawLog>>
                ELSE LET randomIndex == seed % eligibleCount
                         winnerAddress ==
                             selectWinner(participantAddresses, winnerAddresses,
                                          1, 0, randomIndex)
                         winner == participants[sender]
                         winnerInfo ==
                             WinnerInfo(winnerAddress, winner.name, winner.number)
                     IN  /\ winnerAddresses' = Append(winnerAddresses, winnerAddress)
                         /\ winners' = Append(winners, winnerInfo)
                         /\ emitted' = <<WinnerDrawn(winnerAddress, winner.name,
                                                     winner.number)>>
                         /\ returned' = <<winnerInfo>>
                         /\ drawLog' = Append(drawLog, winnerInfo)
                         /\ outcome' = Outcome("drawWinner", "ok")

(* drawWinner() sent by sender; seed is the hash of timestamp, prevrandao  *)
(* and msg.sender.                                                         *)
drawWinner(sender, seed) ==
    /\ UNCHANGED <<admin, deployer, participants, assignedNumbers,
                   participantAddresses, numberAssigned>>
    /\ IF ~onlyAdmin(sender)
       THEN /\ outcome' = Outcome("drawWinner", "Only admin can call this function")
            /\ returned' = Nothing
            /\ emitted' = Nothing
            /\ UNCHANGED <<winnerAddresses, winners, drawLog>>
       ELSE LET eligibleCount ==
                    countEligible(participantAddresses, winnerAddresses, 1, 0)
            IN  IF ~(eligibleCount > 0)
                THEN /\ outcome' = Outcome("drawWinner", "No eligible participants left")
                     /\ returned' = Nothing
                     /\ emitted' = Nothing
                     /\ UNCHANGED <<winnerAddresses, winners, drawLog>>
                ELSE LET randomIndex == seed % eligibleCount
                         winnerAddress ==
                             selectWinner(participantAddresses, winnerAddresses,
                                          1, 0, randomIndex)
                         winner == participants[winnerAddress]
                         winnerInfo ==
                             WinnerInfo(winnerAddress, winner.name, winner.number)
                     IN  /\ winnerAddresses' = Append(winnerAddresses, winnerAddress)
                         /\ winners' = Append(winners, winnerInfo)
                         /\ emitted' = <<WinnerDrawn(winnerAddress, winner.name,
                                                     winner.number)>>
                         /\ returned' = <<winnerInfo>>
                         /\ drawLog' = Append(drawLog, winnerInfo)
                         /\ outcome' = Outcome("drawWinner", "ok")

(* The first loop of resetLottery started at i = 1 instead of i = 0. *)
RECURSIVE clearParticipants_skipFirst(_, _, _)
clearParticipants_skipFirst(p, pa, i) ==
    IF i + 1 > Len(pa) THEN p
    ELSE clearParticipants_skipFirst([p EXCEPT ![pa[i + 1]] = NoParticipant], pa, i + 1)

(* The first loop of resetLottery: delete participants[a] for every a of   *)
(* participantAddresses[i-1 ..].                                           *)
RECURSIVE clearParticipants(_, _, _)
clearParticipants(p, pa, i) ==
    IF i > Len(pa) THEN p
    ELSE clearParticipants([p EXCEPT ![pa[i]] = NoParticipant], pa, i + 1)

(* The last loop of resetLottery writing !numberAssigned[i] for false.     *)
RECURSIVE clearNumbers_toggle(_, _)
clearNumbers_toggle(na, i) ==
    IF i > MAX_NUMBER THEN na
    ELSE clearNumbers_toggle([na EXCEPT ![i] = ~na[i]], i + 1)

(* The last loop of resetLottery with the bound i < MAX_NUMBER. *)
RECURSIVE clearNumbers_exclusive(_, _)
clearNumbers_exclusive(na, i) ==
    IF i >= MAX_NUMBER THEN na
    ELSE clearNumbers_exclusive([na EXCEPT ![i] = FALSE], i + 1)

(* The last loop of resetLottery: numberAssigned[i] = false for i ..       *)
(* MAX_NUMBER.                                                             *)
RECURSIVE clearNumbers(_, _)
clearNumbers(na, i) ==
    IF i > MAX_NUMBER THEN na
    ELSE clearNumbers([na EXCEPT ![i] = FALSE], i + 1)

(* resetLottery that also deletes admin. *)
resetLottery_deletesAdmin(sender, timestamp) ==
    /\ UNCHANGED deployer
    /\ returned' = Nothing
    /\ IF ~(sender = admin)
       THEN /\ outcome' = Outcome("resetLottery", "Only admin can call this function")
            /\ emitted' = Nothing
            /\ UNCHANGED <<storage, drawLog>>
       ELSE /\ participants' = [a \in Address |-> NoParticipant]
            /\ participantAddresses' = << >>
            /\ winnerAddresses' = << >>
            /\ winners' = << >>
            /\ assignedNumbers' = << >>
            /\ numberAssigned' = [n \in NumberKeys |-> FALSE]
            /\ admin' = ZeroAddress
            /\ emitted' = <<LotteryReset(timestamp)>>
            /\ drawLog' = << >>
            /\ outcome' = Outcome("resetLottery", "ok")

(* resetLottery without its emit. *)
resetLottery_noEvent(sender, timestamp) ==
    /\ UNCHANGED deployer
    /\ returned' = Nothing
    /\ IF ~onlyAdmin(sender)
       THEN /\ outcome' = Outcome("resetLottery", "Only admin can call this function")
            /\ emitted' = Nothing
            /\ UNCHANGED <<storage, drawLog>>
       ELSE /\ participants' = clearParticipants(participants, participantAddresses, 1)
            /\ participantAddresses' = << >>
            /\ winnerAddresses' = << >>
            /\ winners' = << >>
            /\ assignedNumbers' = << >>
            /\ numberAssigned' = clearNumbers(numberAssigned, 1)
            /\ UNCHANGED admin
            /\ emitted' = Nothing
            /\ drawLog' = << >>
            /\ outcome' = Outcome("resetLottery", "ok")

(* resetLottery() sent by sender in a block of the given timestamp. *)
resetLottery(sender, timestamp) ==
    /\ UNCHANGED deployer
    /\ returned' = Nothing
    /\ IF ~onlyAdmin(sender)
       THEN /\ outcome' = Outcome("resetLottery", "Only admin can call this function")
            /\ emitted' = Nothing
            /\ UNCHANGED <<storage, drawLog>>
       ELSE /\ participants' = clearParticipants(participants, participantAddresses, 1)
            /\ participantAddresses' = << >>
            /\ winnerAddresses' = << >>
            /\ winners' = << >>
            /\ assignedNumbers' = << >>
            /\ numberAssigned' = clearNumbers(numberAssigned, 1)
            /\ UNCHANGED admin
            /\ emitted' = <<LotteryReset(timestamp)>>
            /\ drawLog' = << >>
            /\ outcome' = Outcome("resetLottery", "ok")

(* What a view function hands to its caller: "ok" and the tuple of its     *)
(* return values, or the message of the require that failed.               *)
Result(status, value) == [status |-> status, value |-> value]

(* getWinnerByIndex counting _index from the end of winners. *)
getWinnerByIndex_fromEnd(_index) ==
    IF ~(_index < Len(winners))
    THEN Result("Index out of bounds", Nothing)
    ELSE Result("ok", <<winners[Len(winners) - _index]>>)

(* getWinnerByIndex(_index) *)
getWinnerByIndex(_index) ==
    IF ~(_index < Len(winners))
    THEN Result("Index out of bounds", Nothing)
    ELSE Result("ok", <<winners[_index + 1]>>)

(* getLatestWinner returning winners[0]. *)
getLatestWinner_first ==
    IF ~(Len(winners) > 0)
    THEN Result("No winners yet", Nothing)
    ELSE Result("ok", <<winners[1]>>)

(* getLatestWinner(); winners.length - 1 is a checked subtraction. *)
getLatestWinner ==
    IF ~(Len(winners) > 0)
    THEN Result("No winners yet", Nothing)
    ELSE Result("ok", <<winners[(Len(winners) - 1) + 1]>>)

(* getParticipantInfo(_participant): the three fields of the mapping entry *)
getParticipantInfo(_participant) ==
    LET participant == participants[_participant]
    IN  Result("ok", <<participant.name, participant.number, participant.exists>>)

(* The loop of isWinner started at i = 1 instead of i = 0. *)
isWinnerLoop_skipFirst(_participant, i) ==
    \E k \in (i + 1)..Len(winnerAddresses) : winnerAddresses[k] = _participant

(* The loop of isWinner from index i (1-based) on. *)
RECURSIVE isWinnerLoop(_, _)
isWinnerLoop(_participant, i) ==
    IF i > Len(winnerAddresses) THEN FALSE
    ELSE IF winnerAddresses[i] = _participant THEN TRUE
    ELSE isWinnerLoop(_participant, i + 1)

(* isWinner(_participant) *)
isWinner(_participant) == Result("ok", <<isWinnerLoop(_participant, 1)>>)

(* A call of a view function: the caller sees its result, storage cannot   *)
(* be written and no event can be emitted.                                 *)
View(op, result) ==
    /\ outcome' = Outcome(op, result.status)
    /\ returned' = result.value
    /\ emitted' = Nothing
    /\ UNCHANGED <<storage, deployer, drawLog>>

Call_getWinnerByIndex(_index) == View("getWinnerByIndex", getWinnerByIndex(_index))

Call_getLatestWinner == View("getLatestWinner", getLatestWinner)

Call_getParticipantInfo(_participant) ==
    View("getParticipantInfo", getParticipantInfo(_participant))

Call_isWinner(_participant) == View("isWinner", isWinner(_participant))

Next ==
    \/ \E sender \in Senders, name \in Names, seed \in Seeds :
           enterRaffle(sender, name, seed)
    \/ \E sender \in Senders, seed \in Seeds : drawWinner(sender, seed)
    \/ \E sender \in Senders, timestamp \in Timestamps :
           resetLottery(sender, timestamp)
    \/ \E _index \in Indexes : Call_getWinnerByIndex(_index)
    \/ Call_getLatestWinner
    \/ \E _participant \in Address : Call_getParticipantInfo(_participant)
    \/ \E _participant \in Address : Call_isWinner(_participant)

Spec == Init /\ [][Next]_vars

(***************************************************************************)
(* Vocabulary of the properties.                                           *)
(***************************************************************************)
Range(seq) == {seq[i] : i \in 1..Len(seq)}

(* The addresses that hold a participant record. *)
Registered == {a \in Address : participants[a].exists}

(* The numbers held by participant records. *)
HeldNumbers == {participants[a].number : a \in Registered}

(* The numbers of 1..MAX_NUMBER not marked assigned. *)
Unassigned == {n \in 1..MAX_NUMBER : ~numberAssigned[n]}

(* The participants that are not in the winner sequence. *)
Eligible == {a \in Range(participantAddresses) : a \notin Range(winnerAddresses)}

AlreadyRegistered == Outcome("enterRaffle", "You have already entered the raffle")

PoolExhausted == Outcome("enterRaffle", "All numbers have been assigned")

Entered == Outcome("enterRaffle", "ok")

NoEligibleParticipants == Outcome("drawWinner", "No eligible participants left")

Drawn == Outcome("drawWinner", "ok")

Unauthorized(op) == Outcome(op, "Only admin can call this function")

WasReset == Outcome("resetLottery", "ok")

(* The step is a call of the function op: every call leaves its function's *)
(* name in outcome.                                                        *)
Called(op) == outcome'.op = op

(* C1: in every reachable state the numbers held by participant records    *)
(* are pairwise distinct and lie in 1..MAX_NUMBER, and the count of        *)
(* assigned numbers equals the participant count and equals MAX_NUMBER     *)
(* minus the count of unassigned numbers.                                  *)
C1_UniqueNumbersInRange ==
    /\ \A a, b \in Registered :
           a # b => participants[a].number # participants[b].number
    /\ \A a \in Registered : participants[a].number \in 1..MAX_NUMBER
    /\ Cardinality(HeldNumbers) = Cardinality(Registered)
    /\ Len(assignedNumbers) = Cardinality(Registered)
    /\ Len(participantAddresses) = Cardinality(Registered)
    /\ Len(assignedNumbers) = MAX_NUMBER - Cardinality(Unassigned)

(* C1 witness: the whole pool has been handed out, the last number by a    *)
(* successful enterRaffle.                                                 *)
C1_Witness ==
    /\ outcome = Entered
    /\ Cardinality(Registered) = MAX_NUMBER
    /\ Cardinality(HeldNumbers) = MAX_NUMBER

(* C2: in every reachable state no address occurs twice in the winner      *)
(* sequence, in winnerAddresses or in winners.                             *)
C2_NoRepeatedWinner ==
    /\ \A i, j \in 1..Len(winnerAddresses) :
           i # j => winnerAddresses[i] # winnerAddresses[j]
    /\ \A i, j \in 1..Len(winners) :
           i # j => winners[i].winnerAddress # winners[j].winnerAddress

(* C2 witness: a draw has succeeded while an earlier winner was recorded.  *)
C2_Witness == outcome = Drawn /\ Len(winnerAddresses) >= 2

(* C3: in every reachable state every address of the winner sequence has a *)
(* participant record (exists = true) and is not the zero address.         *)
C3_WinnersAreParticipants ==
    /\ \A i \in 1..Len(winnerAddresses) :
           /\ winnerAddresses[i] # ZeroAddress
           /\ participants[winnerAddresses[i]].exists
    /\ \A i \in 1..Len(winners) :
           /\ winners[i].winnerAddress # ZeroAddress
           /\ participants[winners[i].winnerAddress].exists

(* C3 witness: a draw has just appended a winner. *)
C3_Witness ==
    /\ outcome = Drawn
    /\ Len(winners) = 1
    /\ winners[1].winnerAddress \in Registered

(* C4: enterRaffle sent by an address that already has a participant       *)
(* record fails with the already-entered error and changes no storage.     *)
C4_DuplicateEnterRejected ==
    [][Called("enterRaffle") => \A sender \in Senders, name \in Names, seed \in Seeds :
          (participants[sender].exists /\ enterRaffle(sender, name, seed))
              => (outcome' = AlreadyRegistered /\ UNCHANGED storage)]_vars

(* C4 witness: an enterRaffle of a registered address has been rejected.   *)
C4_Witness == outcome = AlreadyRegistered /\ Registered # {}

(* C5: enterRaffle sent by an address without a participant record fails   *)
(* with the pool-exhausted error and changes no storage when MAX_NUMBER    *)
(* registrations have succeeded since the last reset, and succeeds when    *)
(* fewer have.                                                             *)
C5_PoolExhaustedAtMax ==
    [][Called("enterRaffle") => \A sender \in Senders, name \in Names, seed \in Seeds :
          (~participants[sender].exists /\ enterRaffle(sender, name, seed))
              => IF Len(participantAddresses) >= MAX_NUMBER
                 THEN outcome' = PoolExhausted /\ UNCHANGED storage
                 ELSE /\ outcome' = Entered
                      /\ participants'[sender].exists
                      /\ Len(participantAddresses') = Len(participantAddresses) + 1]_vars

(* C5 witness: with MAX_NUMBER participants an enterRaffle has failed with *)
(* the pool-exhausted error.                                               *)
C5_Witness ==
    /\ outcome = PoolExhausted
    /\ Len(participantAddresses) = MAX_NUMBER

(* C6: n - w participants are eligible (n participants, w winners); a      *)
(* drawWinner of the admin succeeds exactly when one is eligible, adds one *)
(* winner that was eligible and leaves one fewer eligible; when every      *)
(* participant has won (also with no participant) it fails with the        *)
(* no-eligible error and changes no storage.  So exactly n - w draws in a  *)
(* row succeed and every later one fails.                                  *)
C6_DrawsExhaustEligibility ==
    [][Called("drawWinner") => \A seed \in Seeds :
          drawWinner(admin, seed)
              => /\ Cardinality(Eligible) =
                        Len(participantAddresses) - Len(winnerAddresses)
                 /\ IF Eligible = {}
                    THEN outcome' = NoEligibleParticipants /\ UNCHANGED storage
                    ELSE /\ outcome' = Drawn
                         /\ Len(winnerAddresses') = Len(winnerAddresses) + 1
                         /\ winnerAddresses'[Len(winnerAddresses')] \in Eligible
                         /\ Eligible' = Eligible \ {winnerAddresses'[Len(winnerAddresses')]}
                         /\ Cardinality(Eligible') = Cardinality(Eligible) - 1]_vars

(* C6 witness: every participant has won in turn and the next draw has     *)
(* failed with the no-eligible error.                                      *)
C6_Witness ==
    /\ outcome = NoEligibleParticipants
    /\ Len(participantAddresses) = MAX_NUMBER
    /\ Len(winnerAddresses) = Len(participantAddresses)

(* C7: drawWinner and resetLottery sent by an address other than the admin *)
(* fail with the only-admin error and change no storage.                   *)
C7_OnlyAdminDrawsAndResets ==
    [][\A sender \in Senders :
          sender # admin =>
              /\ Called("drawWinner") => \A seed \in Seeds :
                     drawWinner(sender, seed)
                         => (outcome' = Unauthorized("drawWinner") /\ UNCHANGED storage)
              /\ Called("resetLottery") => \A timestamp \in Timestamps :
                     resetLottery(sender, timestamp)
                         => (outcome' = Unauthorized("resetLottery")
                             /\ UNCHANGED storage)]_vars

(* C7 witness: a drawWinner of a non-admin has been refused with the       *)
(* only-admin error in a state where every participant has won.            *)
C7_Witness ==
    /\ outcome = Unauthorized("drawWinner")
    /\ Len(winners) >= 1
    /\ Eligible = {}

(* C8: resetLottery sent by the admin succeeds and leaves the empty state: *)
(* no participants, no winners, no address with a participant record, no   *)
(* number of 1..MAX_NUMBER assigned; and an enterRaffle of any address,    *)
(* the former participants included, would then pass both requires and     *)
(* get a number.                                                           *)
C8_ResetEmpties ==
    [][Called("resetLottery") => \A timestamp \in Timestamps :
          resetLottery(admin, timestamp)
              => /\ outcome' = WasReset
                 /\ Len(participantAddresses') = 0
                 /\ Len(winners') = 0
                 /\ Len(winnerAddresses') = 0
                 /\ Len(assignedNumbers') = 0
                 /\ \A a \in Address : participants'[a] = NoParticipant
                 /\ \A n \in 1..MAX_NUMBER : ~numberAssigned'[n]
                 /\ \A a \in Registered, seed \in Seeds :
                        /\ ~participants'[a].exists
                        /\ Len(assignedNumbers') < MAX_NUMBER
                        /\ ~_generateUniqueRandomNumber(numberAssigned',
                                assignedNumbers', seed).reverted]_vars

(* C8 witness: the admin's reset has run and left the empty state.         *)
C8_Witness ==
    /\ outcome = WasReset
    /\ Registered = {}
    /\ Unassigned = 1..MAX_NUMBER

(* C9: a successful resetLottery that directly follows a successful        *)
(* resetLottery changes no storage, and no resetLottery changes admin.     *)
C9_ResetIdempotent ==
    [][Called("resetLottery") => \A sender \in Senders, timestamp \in Timestamps :
          resetLottery(sender, timestamp)
              => /\ admin' = admin
                 /\ (outcome = WasReset /\ outcome' = WasReset) => UNCHANGED storage]_vars

(* C9 witness: the state after a successful reset, from which the admin    *)
(* can reset again.                                                        *)
C9_Witness ==
    /\ outcome = WasReset
    /\ onlyAdmin(admin)
    /\ participantAddresses = << >>

(* C10: in every reachable state admin is the address that deployed the    *)
(* contract.                                                               *)
C10_AdminIsDeployer == admin = deployer

(* C10 witness: admin is still the deployer after entries, a draw and a    *)
(* refused call.                                                           *)
C10_Witness ==
    /\ admin = deployer
    /\ Len(winners) >= 1
    /\ outcome.status = "Only admin can call this function"

(***************************************************************************)
(* Vocabulary of the properties on return values, events and selection.    *)
(***************************************************************************)
(* The last element of a non-empty sequence. *)
Last(seq) == seq[Len(seq)]

(* The addresses recorded as winners by the successful draws since the     *)
(* last reset.                                                             *)
DrawnAddresses == {drawLog[i].winnerAddress : i \in 1..Len(drawLog)}

NotYetWon(a) == a \notin Range(winnerAddresses)

(* The participants that have not won, in registration order. *)
EligibleSeq == SelectSeq(participantAddresses, NotYetWon)

(* The elements of a set of numbers in ascending order. *)
RECURSIVE Ascending(_)
Ascending(S) ==
    IF S = {} THEN << >>
    ELSE LET least == CHOOSE x \in S : \A y \in S : x <= y
         IN  <<least>> \o Ascending(S \ {least})

(* The addresses the next drawWinner of the admin can record, over every   *)
(* seed.                                                                   *)
Drawable ==
    LET eligibleCount == countEligible(participantAddresses, winnerAddresses, 1, 0)
    IN  IF eligibleCount = 0 THEN {}
        ELSE {selectWinner(participantAddresses, winnerAddresses, 1, 0,
                           seed % eligibleCount) : seed \in Seeds}

(* The numbers the next enterRaffle can assign, over every seed. *)
Assignable ==
    {_generateUniqueRandomNumber(numberAssigned, assignedNumbers, seed).value :
         seed \in Seeds}

(* The functions that write storage. *)
MutatingOps == {"enterRaffle", "drawWinner", "resetLottery"}

(* C12 as claimed: a successful enterRaffle returns the assigned number,   *)
(* equal to the number in the caller's participant record.                 *)
C12_EnterReturnsNumber ==
    outcome = Entered
        => returned = <<participants[Last(participantAddresses)].number>>

(* C12 as amended: a successful enterRaffle returns no value; the assigned *)
(* number is carried by its ParticipantEntered event, whose participant is *)
(* the caller and whose number equals the number in the caller's record.   *)
C12_EnterEmitsStoredNumber ==
    outcome = Entered
        => /\ returned = Nothing
           /\ Len(emitted) = 1
           /\ emitted[1].event = "ParticipantEntered"
           /\ emitted[1].participant = Last(participantAddresses)
           /\ participants[emitted[1].participant].exists
           /\ emitted[1].number = participants[emitted[1].participant].number

(* C12 witness: a second participant has entered and its event carries the *)
(* number of its record.                                                   *)
C12_Witness ==
    /\ outcome = Entered
    /\ Len(participantAddresses) = 2
    /\ emitted[1].number = participants[participantAddresses[2]].number

(* C13 as claimed: every successful enterRaffle, drawWinner and            *)
(* resetLottery emits exactly one event of its kind, which carries the     *)
(* record and a timestamp; failed calls emit none.                         *)
C13_EventsCarryRecordAndTimestamp ==
    outcome.op \in MutatingOps
        => IF outcome.status = "ok"
           THEN /\ Len(emitted) = 1
                /\ emitted[1].event =
                       CASE outcome.op = "enterRaffle" -> "ParticipantEntered"
                         [] outcome.op = "drawWinner" -> "WinnerDrawn"
                         [] outcome.op = "resetLottery" -> "LotteryReset"
                /\ "timestamp" \in DOMAIN emitted[1]
                /\ outcome.op # "resetLottery"
                       => {"name", "number"} \subseteq DOMAIN emitted[1]
           ELSE emitted = Nothing

(* C13 as amended: every successful enterRaffle, drawWinner and            *)
(* resetLottery emits exactly one event of its kind and failed calls emit  *)
(* none; ParticipantEntered and WinnerDrawn carry the address, name and    *)
(* number of the record and no timestamp, LotteryReset carries only the    *)
(* block timestamp.                                                        *)
C13_OneEventPerSuccess ==
    /\ outcome = Entered =>
           LET a == Last(participantAddresses)
           IN  emitted = <<ParticipantEntered(a, participants[a].name,
                                              participants[a].number)>>
    /\ outcome = Drawn =>
           LET w == Last(winners)
           IN  emitted = <<WinnerDrawn(w.winnerAddress, w.name, w.number)>>
    /\ outcome = WasReset =>
           \E timestamp \in Timestamps : emitted = <<LotteryReset(timestamp)>>
    /\ outcome.status # "ok" => emitted = Nothing
    /\ \A i \in 1..Len(emitted) :
           ("timestamp" \in DOMAIN emitted[i]) = (emitted[i].event = "LotteryReset")

(* C13 witness: a reset has emitted its one LotteryReset event. *)
C13_Witness ==
    /\ outcome = WasReset
    /\ Len(emitted) = 1
    /\ emitted[1].event = "LotteryReset"

(* C14: getWinnerByIndex(i) changes no storage; for i below the winner     *)
(* count it returns what the (i+1)-th successful draw since the last reset *)
(* recorded, otherwise it fails with the index-out-of-bounds error.        *)
C14_WinnerByIndex ==
    [][Called("getWinnerByIndex") => \A i \in Indexes :
          Call_getWinnerByIndex(i)
              => /\ UNCHANGED storage
                 /\ Len(winners) = Len(drawLog)
                 /\ IF i < Len(drawLog)
                    THEN /\ outcome'.status = "ok"
                         /\ returned' = <<drawLog[i + 1]>>
                    ELSE /\ outcome'.status = "Index out of bounds"
                         /\ returned' = Nothing]_vars

(* C14 witness: getWinnerByIndex(1) has returned the second winner. *)
C14_Witness ==
    /\ outcome = Outcome("getWinnerByIndex", "ok")
    /\ Len(drawLog) = 2
    /\ returned = <<drawLog[2]>>

(* C15: getLatestWinner fails with the no-winners error exactly when the   *)
(* winner count is 0; otherwise it returns what the most recent successful *)
(* draw recorded, which is what getWinnerByIndex(winner count - 1)         *)
(* returns.                                                                *)
C15_LatestWinner ==
    [][(Called("getLatestWinner") /\ Call_getLatestWinner)
          => /\ UNCHANGED storage
             /\ Len(winners) = Len(drawLog)
             /\ (outcome'.status = "No winners yet") = (Len(winners) = 0)
             /\ IF Len(winners) = 0
                THEN returned' = Nothing
                ELSE /\ outcome'.status = "ok"
                     /\ returned' = <<Last(drawLog)>>
                     /\ returned' = getWinnerByIndex(Len(winners) - 1).value]_vars

(* C15 witness: getLatestWinner has returned the second of two winners.    *)
C15_Witness ==
    /\ outcome = Outcome("getLatestWinner", "ok")
    /\ Len(winners) = 2
    /\ returned = <<winners[2]>>

(* C16: getParticipantInfo(id) never fails and changes no storage; for an  *)
(* id that has entered since the last reset it returns the stored name,    *)
(* the number assigned to it and exists = true, for any other id the zero  *)
(* values and exists = false.                                              *)
C16_ParticipantInfo ==
    [][Called("getParticipantInfo") => \A id \in Address :
          Call_getParticipantInfo(id)
              => /\ UNCHANGED storage
                 /\ outcome'.status = "ok"
                 /\ IF id \in Range(participantAddresses)
                    THEN \E k \in 1..Len(participantAddresses) :
                             /\ participantAddresses[k] = id
                             /\ participants[id].name \in Names
                             /\ returned' = <<participants[id].name,
                                              assignedNumbers[k], TRUE>>
                    ELSE returned' = <<"", 0, FALSE>>]_vars

(* C16 witness: getParticipantInfo has returned a participant's record.    *)
C16_Witness ==
    /\ outcome = Outcome("getParticipantInfo", "ok")
    /\ returned[3] = TRUE
    /\ returned[2] \in 1..MAX_NUMBER

(* C17: isWinner(id) never fails, changes no storage and returns true      *)
(* exactly when a draw since the last reset recorded id; the addresses the *)
(* next draw can record are those with a participant record for which      *)
(* isWinner is false.                                                      *)
C17_IsWinner ==
    [][Called("isWinner") => \A id \in Address :
          Call_isWinner(id)
              => /\ UNCHANGED storage
                 /\ outcome'.status = "ok"
                 /\ returned' = <<id \in DrawnAddresses>>
                 /\ \A a \in Address :
                        (a \in Drawable) =
                            (participants[a].exists /\ ~isWinner(a).value[1])]_vars

(* C17 witness: isWinner has returned true while another participant is    *)
(* still eligible.                                                         *)
C17_Witness ==
    /\ outcome = Outcome("isWinner", "ok")
    /\ returned = <<TRUE>>
    /\ Eligible # {}

(* C18: a successful drawWinner with seed r in a state with k eligible     *)
(* participants (k >= 1) records the participant at position r mod k,      *)
(* counted from 0, of the not-yet-won participants in registration order;  *)
(* the first pass counts k.                                                *)
C18_DrawSelectsByIndex ==
    [][Called("drawWinner") => \A seed \in Seeds :
          (drawWinner(admin, seed) /\ outcome' = Drawn)
              => LET k == Len(EligibleSeq)
                 IN  /\ k >= 1
                     /\ countEligible(participantAddresses, winnerAddresses, 1, 0) = k
                     /\ Last(winnerAddresses') = EligibleSeq[(seed % k) + 1]
                     /\ Last(winners').winnerAddress = EligibleSeq[(seed % k) + 1]]_vars

(* C18 witness: the first draw has recorded the second of two              *)
(* participants.                                                           *)
C18_Witness ==
    /\ outcome = Drawn
    /\ Len(participantAddresses) = 2
    /\ Len(winnerAddresses) = 1
    /\ winnerAddresses[1] = participantAddresses[2]

(* C19: a successful enterRaffle with seed r in a state with m unassigned  *)
(* numbers (m >= 1) assigns the number at position r mod m, counted from   *)
(* 0, of the unassigned numbers of 1..MAX_NUMBER in ascending order; over  *)
(* the seeds exactly the unassigned numbers can be assigned.               *)
C19_EnterAssignsByIndex ==
    [][Called("enterRaffle") => \A sender \in Senders, name \in Names, seed \in Seeds :
          (enterRaffle(sender, name, seed) /\ outcome' = Entered)
              => LET available == Ascending(Unassigned)
                     m == Len(available)
                 IN  /\ m >= 1
                     /\ participants'[sender].number = available[(seed % m) + 1]
                     /\ Last(assignedNumbers') = available[(seed % m) + 1]
                     /\ Assignable = Unassigned]_vars

(* C19 witness: the first participant has been assigned the largest        *)
(* number and the second the smallest.                                     *)
C19_Witness ==
    /\ outcome = Entered
    /\ Len(assignedNumbers) = 2
    /\ assignedNumbers[1] = MAX_NUMBER
    /\ assignedNumbers[2] = 1

(* C20: a successful drawWinner appends one record to winners and one      *)
(* address to winnerAddresses and changes nothing else: admin, the         *)
(* participant records, participantAddresses, assignedNumbers,             *)
(* numberAssigned and the earlier winners are as before.                   *)
C20_DrawOnlyAppends ==
    [][Called("drawWinner") => \A sender \in Senders, seed \in Seeds :
          (drawWinner(sender, seed) /\ outcome' = Drawn)
              => /\ Len(winners') = Len(winners) + 1
                 /\ SubSeq(winners', 1, Len(winners)) = winners
                 /\ Len(winnerAddresses') = Len(winnerAddresses) + 1
                 /\ SubSeq(winnerAddresses', 1, Len(winnerAddresses)) = winnerAddresses
                 /\ UNCHANGED <<admin, participants, participantAddresses,
                                assignedNumbers, numberAssigned>>]_vars

(* C20 witness: a draw has succeeded with every number assigned and the    *)
(* participant records still in place.                                     *)
C20_Witness ==
    /\ outcome = Drawn
    /\ returned = <<Last(winners)>>
    /\ Cardinality(Registered) = MAX_NUMBER
    /\ Len(assignedNumbers) = MAX_NUMBER

(* C21: a successful enterRaffle takes exactly one number out of the       *)
(* unassigned numbers, creates exactly one participant record, the         *)
(* caller's, puts the caller at the end of participantAddresses, and       *)
(* leaves winners, winnerAddresses, every other participant record and     *)
(* admin as they were.                                                     *)
C21_EnterFrame ==
    [][Called("enterRaffle") => \A sender \in Senders, name \in Names, seed \in Seeds :
          (enterRaffle(sender, name, seed) /\ outcome' = Entered)
              => /\ Unassigned' \subseteq Unassigned
                 /\ Cardinality(Unassigned \ Unassigned') = 1
                 /\ sender \notin Registered
                 /\ Registered' = Registered \cup {sender}
                 /\ participantAddresses' = Append(participantAddresses, sender)
                 /\ \A a \in Address \ {sender} : participants'[a] = participants[a]
                 /\ UNCHANGED <<winners, winnerAddresses, admin>>]_vars

(* C21 witness: an enterRaffle has succeeded after a draw, for a caller    *)
(* who is the second of participantAddresses while the first one's record  *)
(* and the winner record are in place.                                     *)
C21_Witness ==
    /\ outcome = Entered
    /\ Len(winners) = 1
    /\ Len(participantAddresses) = 2
    /\ participants[participantAddresses[1]].exists
    /\ winners[1].winnerAddress = participantAddresses[1]

(* seq is the beginning of longer. *)
IsPrefix(seq, longer) ==
    /\ Len(seq) <= Len(longer)
    /\ SubSeq(longer, 1, Len(seq)) = seq

(* C22: in every step that is not a successful resetLottery the old        *)
(* winners is a prefix of the new winners, the old winnerAddresses is a    *)
(* prefix of the new winnerAddresses, and every participant record that    *)
(* exists still exists with the same name and number.                      *)
C22_AppendOnlyBetweenResets ==
    [][outcome' # WasReset
          => /\ IsPrefix(winners, winners')
             /\ IsPrefix(winnerAddresses, winnerAddresses')
             /\ \A a \in Registered :
                    /\ participants'[a].exists
                    /\ participants'[a].name = participants[a].name
                    /\ participants'[a].number = participants[a].number]_vars

(* C22 witness: two draws have succeeded without a reset in between and    *)
(* both winners still hold their participant records.                      *)
C22_Witness ==
    /\ outcome = Drawn
    /\ Len(winners) = 2
    /\ Len(drawLog) = 2
    /\ \A i \in 1..2 : participants[winners[i].winnerAddress].exists

(* C23: an enterRaffle by a sender who already has a participant record,   *)
(* sent when MAX_NUMBER numbers are assigned, reverts with "You have       *)
(* already entered the raffle" and not with "All numbers have been         *)
(* assigned".                                                              *)
C23_DuplicateCheckedBeforePool ==
    [][Called("enterRaffle") => \A sender \in Senders, name \in Names, seed \in Seeds :
          (/\ participants[sender].exists
           /\ Len(assignedNumbers) >= MAX_NUMBER
           /\ enterRaffle(sender, name, seed))
              => /\ outcome' = AlreadyRegistered
                 /\ outcome' # PoolExhausted]_vars

(* C23 witness: a registered sender's enterRaffle has been refused as a    *)
(* duplicate in a state where every number of 1..MAX_NUMBER is assigned.   *)
C23_Witness ==
    /\ outcome = AlreadyRegistered
    /\ Len(assignedNumbers) = MAX_NUMBER
    /\ Unassigned = {}

(* C24: in every reachable state winnerAddresses and winners have the      *)
(* same length, winners[i].winnerAddress is winnerAddresses[i] at every    *)
(* index, and the name and number of winners[i] are those of the           *)
(* participant record of winners[i].winnerAddress.                         *)
C24_WinnersMatchRecords ==
    /\ Len(winnerAddresses) = Len(winners)
    /\ \A i \in 1..Len(winners) :
          /\ winners[i].winnerAddress = winnerAddresses[i]
          /\ winners[i].name = participants[winners[i].winnerAddress].name
          /\ winners[i].number = participants[winners[i].winnerAddress].number

(* C24 witness: two participants with different numbers have both been    *)
(* drawn, neither of them the admin, and their records exist.              *)
C24_Witness ==
    /\ Len(winners) = 2
    /\ admin \notin Range(winnerAddresses)
    /\ winners[1].number # winners[2].number
    /\ \A i \in 1..2 : /\ winners[i].winnerAddress \in Registered
                        /\ winners[i].name \in Names

(* C25: in every reachable state participantAddresses holds no address    *)
(* twice; an address is in participantAddresses exactly when its record    *)
(* has exists = true; assignedNumbers is as long as participantAddresses   *)
(* and assignedNumbers[i] is the number of the record of                   *)
(* participantAddresses[i]; numberAssigned[n] is true exactly when n is    *)
(* in assignedNumbers.                                                     *)
C25_RegistryCoherent ==
    /\ \A i, j \in 1..Len(participantAddresses) :
          participantAddresses[i] = participantAddresses[j] => i = j
    /\ \A a \in Address :
          a \in Range(participantAddresses) <=> participants[a].exists
    /\ Len(assignedNumbers) = Len(participantAddresses)
    /\ \A i \in 1..Len(participantAddresses) :
          assignedNumbers[i] = participants[participantAddresses[i]].number
    /\ \A n \in NumberKeys :
          numberAssigned[n] <=> n \in Range(assignedNumbers)

(* C25 witness: every number is assigned, the first participant holds a    *)
(* larger number than the second, and one of them has been drawn.          *)
C25_Witness ==
    /\ Len(participantAddresses) = MAX_NUMBER
    /\ assignedNumbers[1] > assignedNumbers[2]
    /\ participantAddresses[1] < participantAddresses[2]
    /\ Len(winnerAddresses) = 1

====
